---- MODULE Spec2Model ----
(***************************************************************************)
(* Storage layout verification for ink! contracts                          *)
(* (scripts/verify_storage.py): the field extractor                        *)
(* StorageLayoutChecker.extract_storage_fields, the baseline file          *)
(* storage-layouts.json (load_saved_layouts / save_layout), the comparison *)
(* in verify_storage_unchanged, and the `check` / `show` commands of main. *)
(*                                                                         *)
(* Text is a sequence of one-character strings.  The literal head of the   *)
(* storage pattern, `#[ink(storage)] pub struct <Name> {`, is the single   *)
(* element StorageMarker.                                                  *)
(***************************************************************************)
EXTENDS Integers, Sequences, FiniteSets, TLC

\* layouts: the file storage-layouts.json
\* last:    the last command run: its arguments, what it read, what
\*          verify_storage_unchanged returned or raised, the exit status
VARIABLES layouts, last

vars == <<layouts, last>>

(***************************************************************************)
(* Bounds of the model                                                     *)
(***************************************************************************)
\* longest field list of a generated declaration (state machine)
MaxFields == 2
\* most fragments concatenated into a storage body (extractor runs)
MaxFrags == 2

(***************************************************************************)
(* Characters                                                              *)
(***************************************************************************)
StorageMarker == "#[ink(storage)] pub struct S {"

\* \w of the regular expressions, restricted to the letters used here
WordChars == {"a", "b", "c", "d", "i", "m", "p", "u", "x", "y", "z",
              "K", "M", "T", "U", "V"}

\* \s of the regular expressions / str.strip()
SpaceChars == {" ", "\n"}

IsWord(c) == c \in WordChars

IsSpace(c) == c \in SpaceChars

\* F applied to the value of v; v is evaluated once
Let(v, F(_)) == CHOOSE r \in {F(x) : x \in {v}} : TRUE

\* first index >= i that is past the end or holds no word character
RECURSIVE WordEnd(_, _)
WordEnd(s, i) == IF i > Len(s) \/ ~IsWord(s[i]) THEN i ELSE WordEnd(s, i + 1)

\* first index >= i that is past the end or holds no whitespace
RECURSIVE SpaceEnd(_, _)
SpaceEnd(s, i) == IF i > Len(s) \/ ~IsSpace(s[i]) THEN i ELSE SpaceEnd(s, i + 1)

\* index of the first occurrence of character c at or after i, 0 if none
RECURSIVE IndexFrom(_, _, _)
IndexFrom(s, c, i) ==
    IF i > Len(s) THEN 0 ELSE IF s[i] = c THEN i ELSE IndexFrom(s, c, i + 1)

\* index of the first occurrence of the two characters c1 c2 at or after i
RECURSIVE IndexFrom2(_, _, _, _)
IndexFrom2(s, c1, c2, i) ==
    IF i >= Len(s) THEN 0
    ELSE IF s[i] = c1 /\ s[i + 1] = c2 THEN i ELSE IndexFrom2(s, c1, c2, i + 1)

\* last index <= i that is before the start or holds no whitespace
RECURSIVE SpaceStart(_, _)
SpaceStart(s, i) == IF i < 1 \/ ~IsSpace(s[i]) THEN i ELSE SpaceStart(s, i - 1)

\* str.strip(): drop leading and trailing whitespace
Strip(t) == SubSeq(t, SpaceEnd(t, 1), SpaceStart(t, Len(t)))

(***************************************************************************)
(* extract_storage_fields                                                  *)
(***************************************************************************)
\* lib.rs of a contract directory: [exists, text]
NoFile == [exists |-> FALSE, text |-> << >>]

LibRs(text) == [exists |-> TRUE, text |-> text]

\* re.search(storage_pattern, content, re.DOTALL): the leftmost marker (a
\* later one has a closing brace after it only if the first has);
\* group(1) runs (non-greedy) to the first closing brace after it
SearchStorage(content) ==
    Let(IndexFrom(content, StorageMarker, 1), LAMBDA start :
        IF start = 0 THEN [found |-> FALSE, body |-> << >>]
        ELSE Let(IndexFrom(content, "}", start + 1), LAMBDA close :
                IF close = 0 THEN [found |-> FALSE, body |-> << >>]
                ELSE [found |-> TRUE, body |-> SubSeq(content, start + 1, close - 1)]))

\* re.sub(r'//.*', '', s, flags=re.MULTILINE): `.` stops before a newline
RECURSIVE RemoveLineComments(_, _)
RemoveLineComments(s, i) ==
    IF i > Len(s) THEN << >>
    ELSE IF i < Len(s) /\ s[i] = "/" /\ s[i + 1] = "/"
         THEN Let(IndexFrom(s, "\n", i), LAMBDA nl :
                 IF nl = 0 THEN << >> ELSE RemoveLineComments(s, nl))
         ELSE <<s[i]>> \o RemoveLineComments(s, i + 1)

\* re.sub(r'/\*.*?\*/', '', s, flags=re.DOTALL)
RECURSIVE RemoveBlockComments(_, _)
RemoveBlockComments(s, i) ==
    IF i > Len(s) THEN << >>
    ELSE IF i < Len(s) /\ s[i] = "/" /\ s[i + 1] = "*"
         THEN Let(IndexFrom2(s, "*", "/", i + 2), LAMBDA close :
                 IF close = 0 THEN <<s[i]>> \o RemoveBlockComments(s, i + 1)
                 ELSE RemoveBlockComments(s, close + 2))
         ELSE <<s[i]>> \o RemoveBlockComments(s, i + 1)

NoMatch == [ok |-> FALSE, name |-> << >>, type |-> << >>, end |-> 0]

\* `(\w+)\s*:\s*([^,]+),` anchored at index w: the name is the run of word
\* characters at w, the type everything (at least one character) between
\* the colon and the next comma; end is the index of that comma
NameAndType(s, w) ==
    Let(WordEnd(s, w), LAMBDA e :
        IF e = w THEN NoMatch
        ELSE Let(SpaceEnd(s, e), LAMBDA c :
                IF c > Len(s) \/ s[c] # ":" THEN NoMatch
                ELSE Let(IndexFrom(s, ",", c + 1), LAMBDA k :
                        IF k < c + 2 THEN NoMatch
                        ELSE [ok |-> TRUE, name |-> SubSeq(s, w, e - 1),
                              type |-> SubSeq(s, c + 1, k - 1), end |-> k])))

\* `pub\s+` matches at index st
PubAt(s, st) ==
    /\ st + 3 <= Len(s)
    /\ s[st] = "p" /\ s[st + 1] = "u" /\ s[st + 2] = "b"
    /\ IsSpace(s[st + 3])

\* field_pattern = r'(?:pub\s+)?(\w+)\s*:\s*([^,]+),' anchored at index st:
\* the optional `pub\s+` is tried first, then the pattern without it
MatchAt(s, st) ==
    IF PubAt(s, st)
    THEN Let(NameAndType(s, SpaceEnd(s, st + 3)), LAMBDA m :
            IF m.ok THEN m ELSE NameAndType(s, st))
    ELSE NameAndType(s, st)

\* the leftmost match of field_pattern that starts at or after st
RECURSIVE FirstMatch(_, _)
FirstMatch(s, st) ==
    IF st > Len(s) THEN NoMatch
    ELSE Let(MatchAt(s, st), LAMBDA m :
            IF m.ok THEN m ELSE FirstMatch(s, st + 1))

StorageField(name, field_type, position) ==
    [cls |-> "StorageField", name |-> name, field_type |-> field_type,
     position |-> position]

\* field_name.startswith('//') or field_name.startswith('#')
IsCommentOrAttribute(name) ==
    \/ Len(name) >= 2 /\ name[1] = "/" /\ name[2] = "/"
    \/ Len(name) >= 1 /\ name[1] = "#"

\* the loop over re.finditer(field_pattern, storage_content): leftmost match
\* at or after p, then on from the character after its closing comma
RECURSIVE FindFields(_, _, _)
FindFields(s, p, position) ==
    Let(FirstMatch(s, p), LAMBDA m :
        IF ~m.ok THEN << >>
        ELSE IF IsCommentOrAttribute(Strip(m.name))
             THEN FindFields(s, m.end + 1, position)
             ELSE <<StorageField(Strip(m.name), Strip(m.type), position)>>
                     \o FindFields(s, m.end + 1, position + 1))

\* the fields of a storage body: line comments removed, then block
\* comments, then the field loop
FieldsOfBody(body) ==
    Let(RemoveLineComments(body, 1), LAMBDA no_line :
        Let(RemoveBlockComments(no_line, 1), LAMBDA storage_content :
            FindFields(storage_content, 1, 0)))

\* extract_storage_fields on the lib.rs of the contract: raised is TRUE when
\* the call raises (open() on a missing lib.rs, or the ValueError for no
\* storage struct)
ExtractStorageFields(lib) ==
    IF ~lib.exists THEN [raised |-> TRUE, fields |-> << >>]
    ELSE Let(SearchStorage(lib.text), LAMBDA match :
            IF ~match.found THEN [raised |-> TRUE, fields |-> << >>]
            ELSE [raised |-> FALSE, fields |-> FieldsOfBody(match.body)])

(***************************************************************************)
(* storage-layouts.json                                                    *)
(*                                                                         *)
(* The file is [valid, data]: data maps a contract name to its list of     *)
(* JSON objects.  A missing file reads as the empty mapping.  valid is     *)
(* FALSE once the file holds text that json.load rejects.                  *)
(***************************************************************************)
Contracts == {"A", "B"}

EmptyFile == [valid |-> TRUE, data |-> [c \in {} |-> << >>]]

\* what open(layout_file, 'w') followed by a json.dump that raises midway
\* leaves behind: a truncated text that is not a JSON document
BrokenFile == [valid |-> FALSE, data |-> [c \in {} |-> << >>]]

\* the dict written for one field by save_layout
FieldDict(f) ==
    [name |-> f.name, field_type |-> f.field_type, position |-> f.position]

\* load_saved_layouts: every stored dict becomes a StorageField object;
\* only called on a valid file (json.load raises on any other)
LoadSavedLayouts(file) ==
    [c \in DOMAIN file.data |->
        [i \in 1..Len(file.data[c]) |->
            StorageField(file.data[c][i].name, file.data[c][i].field_type,
                         file.data[c][i].position)]]

\* json.dump can encode dicts, lists, strings and ints, and raises TypeError
\* on any other object, such as a StorageField dataclass instance
JsonSerializable(mapping) ==
    \A c \in DOMAIN mapping :
        \A i \in 1..Len(mapping[c]) : "cls" \notin DOMAIN mapping[c][i]

\* save_layout: the mapping handed to json.dump is the LOADED mapping (whose
\* values are StorageField objects) with this contract's entry replaced by a
\* list of dicts
LayoutsToDump(file, contract_name, fields) ==
    LET loaded == LoadSavedLayouts(file)
    IN  [c \in DOMAIN loaded \cup {contract_name} |->
            IF c = contract_name
            THEN [i \in 1..Len(fields) |-> FieldDict(fields[i])]
            ELSE loaded[c]]

\* save_layout: the file after the call; the file is opened for writing
\* (truncated) before json.dump runs
SaveLayout(file, contract_name, fields) ==
    LET dump == LayoutsToDump(file, contract_name, fields)
    IN  IF JsonSerializable(dump)
        THEN [valid |-> TRUE, data |-> dump]
        ELSE BrokenFile

(***************************************************************************)
(* verify_storage_unchanged: the comparison                                *)
(*                                                                         *)
(* An element of the error list is one appended message, kept as a record  *)
(* of the values formatted into it.                                        *)
(***************************************************************************)
NamesOf(fields) == {fields[i].name : i \in 1..Len(fields)}

CountChanged(old, new) == [kind |-> "CountChanged", old |-> old, new |-> new]

\* "Added fields: a, b": one message naming every added field
AddedFields(names) == [kind |-> "Added", names |-> names]

RemovedFields(names) == [kind |-> "Removed", names |-> names]

Moved(name, old, new) == [kind |-> "Moved", name |-> name, old |-> old, new |-> new]

NameChanged(i, old, new) ==
    [kind |-> "NameChanged", position |-> i, old |-> old, new |-> new]

\* "Field '<saved.name>' type changed: ...": the message carries the saved
\* name, not the index
TypeChanged(name, old, new) ==
    [kind |-> "TypeChanged", name |-> name, old |-> old, new |-> new]

\* LengthErrors with the two set differences taken the wrong way round
LengthErrors_Swapped(saved_fields, current_fields) ==
    IF Len(current_fields) # Len(saved_fields)
    THEN LET added   == NamesOf(saved_fields) \ NamesOf(current_fields)
             removed == NamesOf(current_fields) \ NamesOf(saved_fields)
         IN  <<CountChanged(Len(saved_fields), Len(current_fields))>>
                \o (IF added # {} THEN <<AddedFields(added)>> ELSE << >>)
                \o (IF removed # {} THEN <<RemovedFields(removed)>> ELSE << >>)
    ELSE << >>

\* lines 128-144: the length check and, under it, the name-set differences
LengthErrors(saved_fields, current_fields) ==
    IF Len(current_fields) # Len(saved_fields)
    THEN LET added   == NamesOf(current_fields) \ NamesOf(saved_fields)
             removed == NamesOf(saved_fields) \ NamesOf(current_fields)
         IN  <<CountChanged(Len(saved_fields), Len(current_fields))>>
                \o (IF added # {} THEN <<AddedFields(added)>> ELSE << >>)
                \o (IF removed # {} THEN <<RemovedFields(removed)>> ELSE << >>)
    ELSE << >>

\* PairErrors with the saved position tested against a one-based index
PairErrors_PositionVsIndex(i, saved, current) ==
    (IF saved.position # i + 1
     THEN <<Moved(saved.name, saved.position, current.position)>> ELSE << >>)
    \o (IF saved.name # current.name
        THEN <<NameChanged(i, saved.name, current.name)>> ELSE << >>)
    \o (IF saved.field_type # current.field_type
        THEN <<TypeChanged(saved.name, saved.field_type, current.field_type)>>
        ELSE << >>)

\* PairErrors with the type test made only when the names agree (elif)
PairErrors_TypeOnlyIfSameName(i, saved, current) ==
    (IF saved.position # current.position
     THEN <<Moved(saved.name, saved.position, current.position)>> ELSE << >>)
    \o (IF saved.name # current.name
        THEN <<NameChanged(i, saved.name, current.name)>>
        ELSE IF saved.field_type # current.field_type
        THEN <<TypeChanged(saved.name, saved.field_type, current.field_type)>>
        ELSE << >>)

\* the three independent tests made on one zipped pair; i is enumerate's
\* zero-based index
PairErrors(i, saved, current) ==
    (IF saved.position # current.position
     THEN <<Moved(saved.name, saved.position, current.position)>> ELSE << >>)
    \o (IF saved.name # current.name
        THEN <<NameChanged(i, saved.name, current.name)>> ELSE << >>)
    \o (IF saved.field_type # current.field_type
        THEN <<TypeChanged(saved.name, saved.field_type, current.field_type)>>
        ELSE << >>)

\* WalkErrors reporting one-based indices (enumerate(..., 1))
RECURSIVE WalkErrors_OneBased(_, _, _)
WalkErrors_OneBased(saved_fields, current_fields, i) ==
    IF i >= Len(saved_fields) \/ i >= Len(current_fields) THEN << >>
    ELSE PairErrors(i + 1, saved_fields[i + 1], current_fields[i + 1])
            \o WalkErrors_OneBased(saved_fields, current_fields, i + 1)

\* lines 146-161: enumerate(zip(saved_fields, current_fields)) from index i
RECURSIVE WalkErrors(_, _, _)
WalkErrors(saved_fields, current_fields, i) ==
    IF i >= Len(saved_fields) \/ i >= Len(current_fields) THEN << >>
    ELSE PairErrors(i, saved_fields[i + 1], current_fields[i + 1])
            \o WalkErrors(saved_fields, current_fields, i + 1)

\* the error list built by lines 126-161
CompareLayouts(saved_fields, current_fields) ==
    LengthErrors(saved_fields, current_fields)
        \o WalkErrors(saved_fields, current_fields, 0)

(***************************************************************************)
(* Declarations given to the commands                                      *)
(***************************************************************************)
\* the (name, type) pairs the generated declarations are made of
DeclaredPairs == {<<"x", "T">>, <<"y", "T">>, <<"x", "U">>, <<"z", "U">>}

FieldLists == UNION {[1..n -> DeclaredPairs] : n \in 0..MaxFields}

RECURSIVE Concat(_)
Concat(ss) == IF ss = << >> THEN << >> ELSE Head(ss) \o Concat(Tail(ss))

\* "  x: T,\n"
FieldLine(nt) == <<" ", " ", nt[1], ":", " ", nt[2], ",", "\n">>

\* a lib.rs declaring the listed fields in the listed order
DeclText(fl) ==
    <<"u", " ", StorageMarker, "\n">>
        \o Concat([i \in 1..Len(fl) |-> FieldLine(fl[i])]) \o <<"}", "\n">>

\* a lib.rs without a storage struct
NoStorageText == <<"u", " ", "x", ":", " ", "T", ",", "\n", "}">>

\* a lib.rs whose storage struct opens with the entry `q,` (a name without a
\* colon and a type) before the listed fields
MalformedText(fl) ==
    <<"u", " ", StorageMarker, "\n", " ", " ", "q", ",", "\n">>
        \o Concat([i \in 1..Len(fl) |-> FieldLine(fl[i])]) \o <<"}", "\n">>

MalformedFiles ==
    {LibRs(MalformedText(<< >>))} \cup {LibRs(MalformedText(<<nt>>)) : nt \in DeclaredPairs}

LibFiles ==
    {NoFile, LibRs(NoStorageText)} \cup {LibRs(DeclText(fl)) : fl \in FieldLists}
        \cup MalformedFiles

\* storage bodies for the extractor: plain, pub, generic and commented
\* fields, and the entry `q,` that has no colon and no type
Fragments ==
    { <<"a", ":", " ", "T", ",", "\n">>,
      <<"p", "u", "b", " ", "b", ":", " ", "U", ",", "\n">>,
      <<"m", ":", " ", "M", "<", "K", ",", " ", "V", ">", ",", "\n">>,
      <<"m", ":", " ", "M", "<", "K", ",", " ", "U", ">", ",", "\n">>,
      <<"m", ":", " ", "M", "<", "K", ",", " ", "i", ":", ":", "V", ">", ",", "\n">>,
      <<"/", "/", " ", "c", ":", " ", "T", ",", "\n">>,
      <<"/", "*", " ", "c", ":", " ", "T", ",", " ", "*", "/", "\n">>,
      <<"/", "*", " ", "c", ":", " ", "T", ",", "\n", "/", "/", " ", "d", " ", "*", "/", "\n">>,
      <<"x", ":", " ", "T", ",", " ", "/", "/", " ", "y", ":", " ", "U", ",", "\n">>,
      <<"q", ",", "\n">> }

Bodies == UNION {{Concat(fs) : fs \in [1..n -> Fragments]} : n \in 0..MaxFrags}

BodyFiles == {LibRs(<<StorageMarker, "\n">> \o b \o <<"}">>) : b \in Bodies}

(***************************************************************************)
(* verify_storage_unchanged                                                *)
(***************************************************************************)
\* "Failed to extract storage: <e>"
ExtractFailed == [kind |-> "ExtractFailed"]

\* what the call read, for the record of the command
Read(known, saved_fields, current_fields) ==
    [known |-> known, saved_fields |-> saved_fields,
     current_fields |-> current_fields]

\* CompareWithSaved with the baseline replaced by the current layout when
\* changes are found
CompareWithSaved_Overwrites(file, contract_name, saved_fields, current_fields) ==
    Let(CompareLayouts(saved_fields, current_fields), LAMBDA errors :
        IF errors # << >>
        THEN [file |-> SaveLayout(file, contract_name, current_fields),
              raised |-> FALSE, ok |-> FALSE,
              error |-> errors, path |-> "changed"]
                 @@ Read(TRUE, saved_fields, current_fields)
        ELSE [file |-> file, raised |-> FALSE, ok |-> TRUE,
              error |-> << >>, path |-> "unchanged"]
                 @@ Read(TRUE, saved_fields, current_fields))

\* lines 123-166: the contract has a saved layout; build the error list and
\* return (False, joined errors) or (True, None); the file is not touched
CompareWithSaved(file, contract_name, saved_fields, current_fields) ==
    Let(CompareLayouts(saved_fields, current_fields), LAMBDA errors :
        IF errors # << >>
        THEN [file |-> file, raised |-> FALSE, ok |-> FALSE,
              error |-> errors, path |-> "changed"]
                 @@ Read(TRUE, saved_fields, current_fields)
        ELSE [file |-> file, raised |-> FALSE, ok |-> TRUE,
              error |-> << >>, path |-> "unchanged"]
                 @@ Read(TRUE, saved_fields, current_fields))

\* lines 117-121: no saved layout; save_layout, then return (True, None)
\* unless save_layout raised
FirstTime(file, contract_name, current_fields) ==
    Let(SaveLayout(file, contract_name, current_fields), LAMBDA saved :
        IF saved.valid
        THEN [file |-> saved, raised |-> FALSE, ok |-> TRUE,
              error |-> << >>, path |-> "first_time"]
                 @@ Read(FALSE, << >>, current_fields)
        ELSE [file |-> saved, raised |-> TRUE, ok |-> FALSE,
              error |-> << >>, path |-> "save_raised"]
                 @@ Read(FALSE, << >>, current_fields))

\* The call on the given storage-layouts.json and lib.rs.  The result holds
\*   file:   storage-layouts.json after the call
\*   raised: an exception left the function (ok and error are then unset)
\*   ok, error: the returned pair; error None is the empty list, otherwise
\*           the lines of the message
\*   path:   the return statement or raising call that ended it
\*   known, saved_fields, current_fields: what the call read
VerifyStorageUnchanged(file, contract_name, lib) ==
    Let(ExtractStorageFields(lib), LAMBDA current :
        IF current.raised
        THEN [file |-> file, raised |-> FALSE, ok |-> FALSE,
              error |-> <<ExtractFailed>>, path |-> "extract_failed"]
                 @@ Read(FALSE, << >>, << >>)
        ELSE IF ~file.valid
        THEN \* json.load in load_saved_layouts raises, outside the try
             [file |-> file, raised |-> TRUE, ok |-> FALSE, error |-> << >>,
              path |-> "load_raised"] @@ Read(FALSE, << >>, current.fields)
        ELSE Let(LoadSavedLayouts(file), LAMBDA saved_layouts :
                IF contract_name \notin DOMAIN saved_layouts
                THEN FirstTime(file, contract_name, current.fields)
                ELSE CompareWithSaved(file, contract_name,
                                      saved_layouts[contract_name], current.fields)))

(***************************************************************************)
(* main: one command per process                                           *)
(***************************************************************************)
\* no command is running
NoCommand ==
    [cmd |-> "none", contract |-> "", lib |-> NoFile, raised |-> FALSE,
     ok |-> FALSE, error |-> << >>, path |-> "", known |-> FALSE,
     saved_fields |-> << >>, current_fields |-> << >>, printed |-> "", exit |-> 0]

\* what main does with the outcome of verify_storage_unchanged: an uncaught
\* exception ends the interpreter with a traceback and status 1; ok falls
\* off the end of main (status 0); otherwise sys.exit(1)
Printed(r) ==
    IF r.raised THEN "Traceback"
    ELSE IF r.ok THEN "Storage layout unchanged" ELSE "Storage layout changed"

ExitStatus(r) == IF r.raised THEN 1 ELSE IF r.ok THEN 0 ELSE 1

\* no command is running
Idle == last.cmd = "none"

\* `check <contract>` run on the lib.rs found in the contract directory
Check(contract, lib) ==
    /\ Idle
    /\ \E r \in {VerifyStorageUnchanged(layouts, contract, lib)} :
          /\ layouts' = r.file
          /\ last' = [cmd |-> "check", contract |-> contract, lib |-> lib,
                      raised |-> r.raised, ok |-> r.ok, error |-> r.error,
                      path |-> r.path, known |-> r.known,
                      saved_fields |-> r.saved_fields,
                      current_fields |-> r.current_fields,
                      printed |-> Printed(r), exit |-> ExitStatus(r)]

\* `show <contract>`: show_layout prints the extracted fields, or the error;
\* main then returns (status 0)
Show(contract, lib) ==
    /\ Idle
    /\ \E fields \in {ExtractStorageFields(lib)} :
          last' = [cmd |-> "show", contract |-> contract, lib |-> lib,
                   raised |-> FALSE, ok |-> ~fields.raised, error |-> << >>,
                   path |-> IF fields.raised THEN "show_error" ELSE "show",
                   known |-> FALSE, saved_fields |-> << >>,
                   current_fields |-> fields.fields,
                   printed |-> IF fields.raised THEN "Error" ELSE "Storage layout for",
                   exit |-> 0]
    /\ UNCHANGED layouts

\* the process ends; only storage-layouts.json outlives it
Exit ==
    /\ ~Idle
    /\ last' = NoCommand
    /\ UNCHANGED layouts

Init ==
    /\ layouts = EmptyFile
    /\ last = NoCommand

Next ==
    \/ Idle /\ \E contract \in Contracts, lib \in LibFiles : Check(contract, lib)
    \/ Idle /\ \E contract \in Contracts, lib \in LibFiles : Show(contract, lib)
    \/ Exit

Spec == Init /\ [][Next]_vars

\* the extractor run on commented and generic storage bodies
NextShow ==
    \/ Idle /\ \E contract \in Contracts, lib \in BodyFiles : Show(contract, lib)
    \/ Exit

SpecShow == Init /\ [][NextShow]_vars

TypeOK ==
    /\ layouts.valid \in BOOLEAN
    /\ DOMAIN layouts.data \subseteq Contracts
    /\ last.exit \in {0, 1}

(***************************************************************************)
(* Vocabulary of the properties                                            *)
(***************************************************************************)
Range(q) == {q[j] : j \in 1..Len(q)}

\* the records of one kind in an error list
OfKind(errors, kind) == {j \in 1..Len(errors) : errors[j].kind = kind}

\* a check command has run and is about to exit
Checked == last.cmd = "check"

\* the check found a readable baseline for the contract and compared
Compared == Checked /\ last.known

\* the list of dicts save_layout writes for a snapshot
Dicts(fields) == [i \in 1..Len(fields) |-> FieldDict(fields[i])]

\* indices 1..n of the zipped walk
Walked(saved, current) ==
    1..(IF Len(saved) < Len(current) THEN Len(saved) ELSE Len(current))

UniqueNames(fields) ==
    \A i, j \in 1..Len(fields) : fields[i].name = fields[j].name => i = j

(***************************************************************************)
(* C1: the baseline store changes only in the first check of a contract    *)
(* that has no baseline and whose extraction succeeds.  Every other step   *)
(* (a check of a contract that has a baseline, whatever its verdict; a     *)
(* check whose extraction fails; show; exit) leaves the whole file as it   *)
(* was.                                                                    *)
(***************************************************************************)
C1_StoreWrittenOnlyOnFirstCheck ==
    [][layouts' # layouts =>
          /\ last'.cmd = "check"
          /\ layouts.valid
          /\ last'.contract \notin DOMAIN layouts.data
          /\ ~ExtractStorageFields(last'.lib).raised]_vars

\* a contract with a baseline was checked, violations were found, and the
\* file still holds the baseline the comparison read
C1_Witness ==
    /\ Compared
    /\ last.path = "changed"
    /\ layouts.valid
    /\ layouts.data[last.contract] = Dicts(last.saved_fields)
    /\ last.current_fields # last.saved_fields

(***************************************************************************)
(* C2: first-use acceptance.  When the store holds no baseline for the     *)
(* contract and extraction succeeds, the check returns success (never      *)
(* violations, no exception), the store then maps the contract to exactly  *)
(* the current snapshot, and every other contract's record is unchanged.   *)
(***************************************************************************)
C2_FirstUseAcceptance ==
    [][(/\ last'.cmd = "check"
        /\ layouts.valid
        /\ last'.contract \notin DOMAIN layouts.data
        /\ ~ExtractStorageFields(last'.lib).raised)
       =>
       (/\ ~last'.raised
        /\ last'.ok
        /\ last'.error = << >>
        /\ layouts'.valid
        /\ DOMAIN layouts'.data = DOMAIN layouts.data \cup {last'.contract}
        /\ layouts'.data[last'.contract] = Dicts(ExtractStorageFields(last'.lib).fields)
        /\ \A other \in DOMAIN layouts.data :
              layouts'.data[other] = layouts.data[other])]_vars

(***************************************************************************)
(* C3: "could not check", "checked and found violations" and "checked and  *)
(* safe" are three distinct outcomes: two checks of a contract that end in *)
(* different ones of the three differ in the pass/fail bit returned by     *)
(* verify_storage_unchanged and in the exit status of the check command.   *)
(* Stated of the check that has just run and of any check that could run   *)
(* next on the same contract.                                              *)
(***************************************************************************)
OutcomeClass(r) ==
    IF r.path = "extract_failed" THEN "could not check"
    ELSE IF r.path = "changed" THEN "violations"
    ELSE IF r.path = "unchanged" THEN "safe"
    ELSE "other"

C3_ThreeOutcomesDistinct ==
    Checked =>
        \A lib \in LibFiles :
            LET r == VerifyStorageUnchanged(layouts, last.contract, lib)
            IN  (/\ OutcomeClass(last) # "other"
                 /\ OutcomeClass(r) # "other"
                 /\ OutcomeClass(r) # OutcomeClass(last))
                => (r.ok # last.ok /\ ExitStatus(r) # last.exit)

PositionOf(fields, name) ==
    fields[CHOOSE i \in 1..Len(fields) : fields[i].name = name].position

Occurrences(fields, name) == Cardinality({i \in 1..Len(fields) : fields[i].name = name})

MovedNames(saved, current) ==
    {name \in NamesOf(saved) \cap NamesOf(current) :
        /\ Occurrences(saved, name) = 1
        /\ Occurrences(current, name) = 1
        /\ PositionOf(saved, name) # PositionOf(current, name)}

C5_MoveDetection ==
    Compared =>
        \A name \in MovedNames(last.saved_fields, last.current_fields) :
            /\ Cardinality({j \in 1..Len(last.error) :
                              last.error[j] = Moved(name,
                                  PositionOf(last.saved_fields, name),
                                  PositionOf(last.current_fields, name))}) = 1
            /\ \A j \in OfKind(last.error, "Added") \cup OfKind(last.error, "Removed") :
                  name \notin last.error[j].names

(***************************************************************************)
(* C6: rename detection.  When baseline and current have the same length   *)
(* and differ at exactly one position only in the field name (same type    *)
(* there, every other position identical, the new name not in the          *)
(* baseline), the check returns violations with exactly one discrepancy:   *)
(* the name change at that position, from the old to the new name.         *)
(***************************************************************************)
\* the zero-based positions at which the two lists hold different fields
DifferAt(saved, current) ==
    {i \in 0..(Len(saved) - 1) : saved[i + 1] # current[i + 1]}

RenamedOnlyAt(saved, current, i) ==
    /\ Len(saved) = Len(current)
    /\ DifferAt(saved, current) = {i}
    /\ saved[i + 1].name # current[i + 1].name
    /\ saved[i + 1].field_type = current[i + 1].field_type
    /\ current[i + 1].name \notin NamesOf(saved)

C6_RenameDetection ==
    Compared =>
        \A i \in 0..(Len(last.saved_fields) - 1) :
            RenamedOnlyAt(last.saved_fields, last.current_fields, i)
            => /\ ~last.ok
               /\ last.error = <<NameChanged(i, last.saved_fields[i + 1].name,
                                             last.current_fields[i + 1].name)>>

\* the last field of a full-length baseline was renamed
C6_Witness ==
    /\ Compared
    /\ Len(last.saved_fields) = MaxFields
    /\ RenamedOnlyAt(last.saved_fields, last.current_fields, MaxFields - 1)
    /\ last.path = "changed"

(***************************************************************************)
(* C7: type-change detection.                                              *)
(***************************************************************************)
\* walked indices (one-based) whose two fields differ in declared type
RetypedAt(saved, current) ==
    {i \in Walked(saved, current) : saved[i].field_type # current[i].field_type}

\* walked indices whose two fields have the same name and different types
RetypedSameNameAt(saved, current) ==
    {i \in RetypedAt(saved, current) : saved[i].name = current[i].name}

RenamedAt(saved, current) ==
    {i \in Walked(saved, current) : saved[i].name # current[i].name}

\* the type-change messages, in order
TypeChanges(errors) ==
    SelectSeq(errors, LAMBDA e : e.kind = "TypeChanged")

\* the type-change messages expected for the ascending list of indices
RECURSIVE TypeChangesAt(_, _, _, _)
TypeChangesAt(saved, current, indices, i) ==
    IF i > Len(saved) \/ i > Len(current) THEN << >>
    ELSE (IF i \in indices
          THEN <<TypeChanged(saved[i].name, saved[i].field_type, current[i].field_type)>>
          ELSE << >>) \o TypeChangesAt(saved, current, indices, i + 1)

\* C7 as claimed: a type change is reported for exactly the walked
\* positions where the names agree and the declared types differ (so none
\* where the names differ, which get a name change instead); one retype with
\* everything else identical gives exactly one discrepancy.
C7_TypeChangeOnlyWithSameName ==
    Compared =>
        LET saved == last.saved_fields
            current == last.current_fields
        IN  /\ TypeChanges(last.error)
                  = TypeChangesAt(saved, current, RetypedSameNameAt(saved, current), 1)
            /\ \A i \in RenamedAt(saved, current) :
                  NameChanged(i - 1, saved[i].name, current[i].name) \in Range(last.error)

\* C7 amended: a type change is reported for exactly the walked positions
\* where the declared types differ, whether or not the names agree there
\* (a position whose name and type both differ gets a name change and a type
\* change); one retype with everything else identical gives exactly one
\* discrepancy.
C7_TypeChangeDetection ==
    Compared =>
        LET saved == last.saved_fields
            current == last.current_fields
        IN  /\ TypeChanges(last.error)
                  = TypeChangesAt(saved, current, RetypedAt(saved, current), 1)
            /\ \A i \in RenamedAt(saved, current) :
                  NameChanged(i - 1, saved[i].name, current[i].name) \in Range(last.error)
            /\ (/\ Len(saved) = Len(current)
                /\ Cardinality(DifferAt(saved, current)) = 1
                /\ RetypedSameNameAt(saved, current) # {})
               => Len(last.error) = 1

\* one position was renamed and retyped at once, another only retyped
C7_Witness ==
    /\ Compared
    /\ RetypedSameNameAt(last.saved_fields, last.current_fields) # {}
    /\ RetypedAt(last.saved_fields, last.current_fields)
          \cap RenamedAt(last.saved_fields, last.current_fields) # {}
    /\ Len(TypeChanges(last.error)) = 2

(***************************************************************************)
(* C8: addition and removal at the end.  When the current snapshot is the  *)
(* baseline followed by k >= 1 fields with new, pairwise distinct names,   *)
(* the check returns violations holding the count change (old and new      *)
(* length) and the added names, each of them; when it is the baseline      *)
(* (names unique, as in every snapshot of the data model) without its last *)
(* k fields, the count change and the removed names.  In both cases no     *)
(* move, rename or retype is reported.                                     *)
(***************************************************************************)
IsPrefix(short, long) ==
    Len(short) <= Len(long) /\ SubSeq(long, 1, Len(short)) = short

TailNames(short, long) == {long[i].name : i \in (Len(short) + 1)..Len(long)}

Appended(saved, current) ==
    /\ Len(current) > Len(saved)
    /\ IsPrefix(saved, current)
    /\ TailNames(saved, current) \cap NamesOf(saved) = {}
    /\ Cardinality(TailNames(saved, current)) = Len(current) - Len(saved)

Truncated(saved, current) ==
    /\ Len(current) < Len(saved)
    /\ IsPrefix(current, saved)
    /\ UniqueNames(saved)

NoPositional(errors) ==
    \A j \in 1..Len(errors) : errors[j].kind \notin {"Moved", "NameChanged", "TypeChanged"}

\* the names listed by the messages of one kind
NamesReported(errors, kind) == UNION {errors[j].names : j \in OfKind(errors, kind)}

C8_AdditionRemoval ==
    Compared =>
        LET saved == last.saved_fields
            current == last.current_fields
        IN  /\ Appended(saved, current) =>
                  /\ ~last.ok
                  /\ CountChanged(Len(saved), Len(current)) \in Range(last.error)
                  /\ Cardinality(OfKind(last.error, "Added")) = 1
                  /\ NamesReported(last.error, "Added") = TailNames(saved, current)
                  /\ NoPositional(last.error)
            /\ Truncated(saved, current) =>
                  /\ ~last.ok
                  /\ CountChanged(Len(saved), Len(current)) \in Range(last.error)
                  /\ Cardinality(OfKind(last.error, "Removed")) = 1
                  /\ NamesReported(last.error, "Removed") = TailNames(current, saved)
                  /\ NoPositional(last.error)

\* MaxFields new fields were appended to an empty baseline, or the last
\* field of a full baseline was removed
C8_Witness ==
    /\ Compared
    /\ last.path = "changed"
    /\ \/ /\ Appended(last.saved_fields, last.current_fields)
          /\ Len(last.current_fields) = MaxFields
          /\ Len(last.saved_fields) = MaxFields - 1
       \/ /\ Truncated(last.saved_fields, last.current_fields)
          /\ Len(last.saved_fields) = MaxFields

(***************************************************************************)
(* Reference readings of a storage body, for the extractor properties      *)
(***************************************************************************)
\* show has run on a lib.rs with a storage struct
Shown == last.cmd = "show" /\ last.path = "show"

\* the storage body of the lib.rs the last command read
BodyOf(lib) == SearchStorage(lib.text).body

\* the body with every comment deleted, reading left to right: `//` opens a
\* comment that runs to the end of the line, `/*` one that runs to the next
\* `*/`; whichever opens first hides the other
RECURSIVE WithoutComments(_, _)
WithoutComments(s, i) ==
    IF i > Len(s) THEN << >>
    ELSE IF i < Len(s) /\ s[i] = "/" /\ s[i + 1] = "/"
         THEN IF IndexFrom(s, "\n", i) = 0 THEN << >>
              ELSE WithoutComments(s, IndexFrom(s, "\n", i))
    ELSE IF i < Len(s) /\ s[i] = "/" /\ s[i + 1] = "*"
         THEN IF IndexFrom2(s, "*", "/", i + 2) = 0 THEN << >>
              ELSE WithoutComments(s, IndexFrom2(s, "*", "/", i + 2) + 2)
    ELSE <<s[i]>> \o WithoutComments(s, i + 1)

HasComment(s) == \E j \in 1..Len(s) : s[j] = "/"

\* index of the first field separator at nesting depth 0 of `<` `>`, from i
RECURSIVE SeparatorFrom(_, _, _)
SeparatorFrom(s, i, depth) ==
    IF i > Len(s) THEN 0
    ELSE IF s[i] = "<" THEN SeparatorFrom(s, i + 1, depth + 1)
    ELSE IF s[i] = ">" THEN SeparatorFrom(s, i + 1, depth - 1)
    ELSE IF s[i] = "," /\ depth = 0 THEN i
    ELSE SeparatorFrom(s, i + 1, depth)

\* one entry `[pub] name : type` read as a field
EntryField(entry, position) ==
    LET e == Strip(entry)
        d == IF Len(e) >= 4 /\ SubSeq(e, 1, 3) = <<"p", "u", "b">> /\ IsSpace(e[4])
             THEN Strip(SubSeq(e, 5, Len(e))) ELSE e
        colon == SpaceEnd(d, WordEnd(d, 1))
    IN  StorageField(SubSeq(d, 1, WordEnd(d, 1) - 1),
                     Strip(SubSeq(d, colon + 1, Len(d))), position)

\* the declared fields of a comment-free body: entries end at the separators
\* of depth 0, the type is everything between the colon and the separator
RECURSIVE DeclaredFields(_, _, _)
DeclaredFields(s, p, position) ==
    IF SeparatorFrom(s, p, 0) = 0 THEN << >>
    ELSE <<EntryField(SubSeq(s, p, SeparatorFrom(s, p, 0) - 1), position)>>
            \o DeclaredFields(s, SeparatorFrom(s, p, 0) + 1, position + 1)

(***************************************************************************)
(* C9: nested-generic robustness.  A field whose type holds a bracketed    *)
(* generic with an internal comma is extracted as exactly one field, and   *)
(* its declared type is the whole type expression up to the separator at   *)
(* nesting depth 0: on a comment-free body the extracted fields are the    *)
(* declared fields.                                                        *)
(***************************************************************************)
C9_NestedGenerics ==
    (Shown /\ ~HasComment(BodyOf(last.lib)))
    => last.current_fields = DeclaredFields(BodyOf(last.lib), 1, 0)

(***************************************************************************)
(* C10: comment immunity.  Text inside a line comment or a block comment   *)
(* is never extracted as a field: the fields extracted from a storage body *)
(* are the fields extracted from that body with all comments deleted.      *)
(***************************************************************************)
C10_CommentImmunity ==
    Shown => last.current_fields = FieldsOfBody(WithoutComments(BodyOf(last.lib), 1))

(***************************************************************************)
(* Well-formed blocks                                                      *)
(***************************************************************************)
\* the entry `[pub] name : type` decomposes into a name and a type: after
\* the optional qualifier it opens with an identifier, followed by a colon
\* and a type expression that is not blank
Decomposes(entry) ==
    LET e == Strip(entry)
        d == IF Len(e) >= 4 /\ SubSeq(e, 1, 3) = <<"p", "u", "b">> /\ IsSpace(e[4])
             THEN Strip(SubSeq(e, 5, Len(e))) ELSE e
        colon == SpaceEnd(d, WordEnd(d, 1))
    IN  /\ WordEnd(d, 1) > 1
        /\ colon <= Len(d) /\ d[colon] = ":"
        /\ Strip(SubSeq(d, colon + 1, Len(d))) # << >>

\* a comment-free body is well formed from index p on: every entry that
\* ends at a separator of depth 0 decomposes, and only blanks follow the
\* last separator
RECURSIVE WellFormedFrom(_, _)
WellFormedFrom(s, p) ==
    IF SeparatorFrom(s, p, 0) = 0 THEN Strip(SubSeq(s, p, Len(s))) = << >>
    ELSE /\ Decomposes(SubSeq(s, p, SeparatorFrom(s, p, 0) - 1))
         /\ WellFormedFrom(s, SeparatorFrom(s, p, 0) + 1)

\* the storage block of the lib.rs, read without its comments, is well formed
WellFormedBlock(lib) == WellFormedFrom(WithoutComments(BodyOf(lib), 1), 1)

\* the fields the block declares, in textual order
FieldsDeclared(lib) == DeclaredFields(WithoutComments(BodyOf(lib), 1), 1, 0)

(***************************************************************************)
(* C11: order preservation.  For a well-formed block declaring the fields  *)
(* f0 .. f(n-1) in textual order, whatever whitespace, line breaks and     *)
(* comments stand between them, extraction returns exactly n fields, and   *)
(* the i-th has the name of fi and position i: positions are 0 .. n-1 and  *)
(* no declared field is dropped, reordered, sorted or deduplicated.        *)
(***************************************************************************)
C11_OrderPreservation ==
    (Shown /\ WellFormedBlock(last.lib))
    => /\ Len(last.current_fields) = Len(FieldsDeclared(last.lib))
       /\ \A i \in 1..Len(last.current_fields) :
             /\ last.current_fields[i].position = i - 1
             /\ i <= Len(FieldsDeclared(last.lib))
                   => last.current_fields[i].name = FieldsDeclared(last.lib)[i].name

(***************************************************************************)
(* C12: MalformedBlock.  When the storage block of the lib.rs is found but *)
(* an entry in it cannot be decomposed into a name and a type, extraction  *)
(* fails: show prints the error and no layout, a check returns the         *)
(* extraction failure, and the check leaves the baseline store as it was.  *)
(* The malformed entry is not skipped.                                     *)
(***************************************************************************)
C12_MalformedBlock ==
    [][(/\ last'.cmd \in {"check", "show"}
        /\ last'.lib.exists
        /\ SearchStorage(last'.lib.text).found
        /\ ~WellFormedBlock(last'.lib))
       =>
       (/\ last'.current_fields = << >>
        /\ last'.cmd = "show" => last'.path = "show_error"
        /\ last'.cmd = "check" => last'.path = "extract_failed"
        /\ layouts' = layouts)]_vars

(***************************************************************************)
(* Verdicts                                                                *)
(***************************************************************************)
\* two snapshots are field-for-field equal
SameSnapshot(saved, current) ==
    /\ Len(saved) = Len(current)
    /\ \A i \in 1..Len(saved) :
          /\ saved[i].name = current[i].name
          /\ saved[i].field_type = current[i].field_type
          /\ saved[i].position = current[i].position

\* a check of the contract on this lib.rs, run on this store, returns
\* (False, the list of changes)
ReportsViolations(file, contract, lib) ==
    VerifyStorageUnchanged(file, contract, lib).path = "changed"

\* the check that has just run found a baseline in the store and its
\* verdict is sound: success only for a snapshot equal to the baseline,
\* otherwise violations with at least one discrepancy
SoundVerdict ==
    (/\ last'.cmd = "check"
     /\ layouts.valid
     /\ last'.contract \in DOMAIN layouts.data
     /\ ~ExtractStorageFields(last'.lib).raised)
    =>
    (/\ ~last'.raised
     /\ last'.ok <=> SameSnapshot(LoadSavedLayouts(layouts)[last'.contract],
                                  ExtractStorageFields(last'.lib).fields)
     /\ ~last'.ok => (last'.path = "changed" /\ last'.error # << >>))

\* a snapshot whose check reports violations keeps doing so after the step
ViolationsPersist ==
    layouts' # layouts
    => \A contract \in Contracts, lib \in LibFiles :
          ReportsViolations(layouts, contract, lib)
              => ReportsViolations(layouts', contract, lib)

(***************************************************************************)
(* C13: soundness of the verdict.  A check that compares against a present *)
(* baseline reports success only if the current snapshot and the baseline  *)
(* are field-for-field equal (same length; same name, declared type and    *)
(* position at every index); any difference yields violations with at      *)
(* least one discrepancy.  And no step changes that: once a check of a     *)
(* contract's snapshot reports violations, every later check of that       *)
(* snapshot reports violations.                                            *)
(***************************************************************************)
C13_VerdictSoundness == [][SoundVerdict /\ ViolationsPersist]_vars

====
